---- MODULE Spec2Model ----
(***************************************************************************)
(* Model of mcp_command_serv: the policy gate (is_command_blocked,         *)
(* is_restricted_file_access, check_override), the process runner          *)
(* (exec_command, fish_workaround), the tools run_command and              *)
(* run_expect_script of mcp_command_server_enh.py, and PexpectAutomator.run *)
(* of pexpect_auto.py. Spec follows one tool call after load_config;       *)
(* SpecPipes follows one exec_command call at the level of the pipes of    *)
(* its child.                                                              *)
(*                                                                         *)
(* A Python str is a sequence of one-character strings, so that the        *)
(* regular expressions of the gate are computed character by character.    *)
(***************************************************************************)
EXTENDS Naturals, Integers, Sequences, FiniteSets, TLC

VARIABLES
    SERVER_CONFIG,  \* the global SERVER_CONFIG
    configFile,     \* what load_config met: "unread", "loaded", "missing", "unparsable"
    pc,             \* where the server is in its one request
    request,        \* the tool call being served
    execCalls,      \* the calls of exec_command made so far
    spawned,        \* the processes the host was asked for and started
    execResult,     \* Optional: the ExecResult exec_command returned
    response,       \* Optional: what the tool returned to the caller
    raised,         \* Optional: the exception the tool let escape
    child,          \* PexpectAutomator.child: "none", "alive", "exited", "closed"
    cursor,         \* index of the next action of PexpectAutomator.actions
    output,         \* Optional: PexpectAutomator.output
    steps,          \* the calls PexpectAutomator.run has made to pexpect, in order
    pty,            \* the texts sent to the child that it has not read yet
    cwd,            \* os.getcwd(): the working directory of the server process
    chdirs,         \* what the change_dir calls so far have returned, in order
    calls,          \* the tool calls in flight side by side, each with its own state
    proc,           \* the child of exec_command: "none", "running", "exited"
    plan,           \* what that child does before it exits, and its exit code
    ip,             \* index of the child's next operation in its plan
    pipes,          \* what is in the stdin, stdout and stderr pipes of the child
    feed,           \* the input communicate() has still to write
    tasks,          \* the three tasks communicate() gathers: "run" or "done"
    captured        \* what the tasks reading stdout and stderr have read

\* the state of one exec_command call at the level of its pipes
pipeVars == <<proc, plan, ip, pipes, feed, tasks, captured>>

\* the state that calls in flight side by side can see of each other
callVars == <<cwd, chdirs, calls>>
vars == <<SERVER_CONFIG, configFile, pc, request, execCalls, spawned, execResult,
          response, raised, child, cursor, output, steps, pty, pipeVars, callVars>>

(***************************************************************************)
(* Bounds of the model.                                                    *)
(***************************************************************************)
\* longest command line a request carries
MaxLen == 3
\* longest action list of a run_expect_script request
MaxActions == 2
\* what a pipe holds before a write to it blocks, in units of output (one
\* unit stands for one pipe buffer, 64 KB on Linux)
PipeCap == 1
\* most operations (writes of one unit, reads of one unit) a child does
MaxOps == 4
\* longest stdin payload handed to exec_command, in units
MaxInput == 2
\* how many sendline texts the pty takes while the child reads none
PtyCap == 1

(***************************************************************************)
(* Characters: \w, \s and str.lower() of Python's re and str.              *)
(***************************************************************************)
LowerSeq == <<"a","b","c","d","e","f","g","h","i","j","k","l","m",
              "n","o","p","q","r","s","t","u","v","w","x","y","z">>
UpperSeq == <<"A","B","C","D","E","F","G","H","I","J","K","L","M",
              "N","O","P","Q","R","S","T","U","V","W","X","Y","Z">>
Digits == {"0","1","2","3","4","5","6","7","8","9"}
Range(f) == {f[i] : i \in DOMAIN f}

\* \w of the re module
WordChars == Range(LowerSeq) \cup Range(UpperSeq) \cup Digits \cup {"_"}
IsWordChar(c) == c \in WordChars
\* \s of the re module, which is also what str.strip() removes
IsSpaceChar(c) == c \in {" ", "\t", "\n", "\r"}
\* the separators of re.split(r'[;&|]+', command)
IsSeparator(c) == c \in {";", "&", "|"}

\* str.lower() on one character
UpperChars == Range(UpperSeq)
LowerOf == [c \in UpperChars |-> LowerSeq[CHOOSE i \in DOMAIN UpperSeq : UpperSeq[i] = c]]
LowerChar(c) == IF c \in UpperChars THEN LowerOf[c] ELSE c
\* str.lower()
LowerStr(s) == [i \in DOMAIN s |-> LowerChar(s[i])]

\* str.strip(): leading and trailing whitespace removed
RECURSIVE LStrip(_)
LStrip(s) == IF s # <<>> /\ IsSpaceChar(Head(s)) THEN LStrip(Tail(s)) ELSE s
RECURSIVE RStrip(_)
RStrip(s) ==
    IF s # <<>> /\ IsSpaceChar(s[Len(s)]) THEN RStrip(SubSeq(s, 1, Len(s) - 1)) ELSE s
Strip(s) == RStrip(LStrip(s))

\* re.split(r'[;&|]+', s): the pieces between maximal runs of separators,
\* the empty pieces at both ends included
RECURSIVE SplitRec(_, _, _, _)
SplitRec(s, i, cur, inSep) ==
    IF i > Len(s) THEN <<cur>>
    ELSE IF IsSeparator(s[i])
         THEN IF inSep THEN SplitRec(s, i + 1, <<>>, TRUE)
              ELSE <<cur>> \o SplitRec(s, i + 1, <<>>, TRUE)
         ELSE SplitRec(s, i + 1, Append(cur, s[i]), FALSE)
ReSplit(s) == SplitRec(s, 1, <<>>, FALSE)

\* t is the text of s at positions i .. i+Len(t)-1
OccursAt(s, t, i) ==
    /\ i >= 1
    /\ i + Len(t) - 1 <= Len(s)
    /\ \A k \in 1..Len(t) : s[i + k - 1] = t[k]

\* \b between s[k] and s[k+1] (k = 0: the start, k = Len(s): the end)
WordBoundary(s, k) ==
    (k >= 1 /\ IsWordChar(s[k])) # (k < Len(s) /\ IsWordChar(s[k + 1]))

\* str.find(sub): the lowest index (from 0) where sub occurs, or -1
Find(s, sub) ==
    IF \E i \in 1..(Len(s) + 1) : OccursAt(s, sub, i)
    THEN (CHOOSE i \in 1..(Len(s) + 1) :
              /\ OccursAt(s, sub, i)
              /\ \A j \in 1..(i - 1) : ~OccursAt(s, sub, j)) - 1
    ELSE -1

(***************************************************************************)
(* Configuration.                                                          *)
(***************************************************************************)
\* DEFAULT_CONFIG of the server
DEFAULT_CONFIG ==
    [ prohibited_commands |->
          << <<"r","m"," ">>, <<"m","v"," ">>,
             <<"s","u","d","o"," ">>, <<"s","u"," ">> >>,
      override |-> FALSE,
      restricted_files |->
          << <<"m","c","p","_","c","o","m","m","a","n","d","_","s","e","r","v",
               "e","r","_","e","n","h",".","p","y">>,
             <<"m","c","p","_","c","o","m","m","a","n","d","_","s","e","r","v",
               "e","r",".","l","o","g">>,
             <<"p","e","x","p","e","c","t","_","a","u","t","o",".","p","y">>,
             <<"c","o","n","f","i","g",".","t","o","m","l">> >> ]

\* what tomli.load can return for the config.toml files of the model; a key
\* that the file leaves out is absent from the record
ConfigFiles ==
    { [ prohibited_commands |-> << <<"r","m"," ">> >>,
        override |-> FALSE,
        restricted_files |-> << <<"R">> >> ],
      [ prohibited_commands |-> << <<"r","m"," ">> >>,
        override |-> TRUE,
        restricted_files |-> << <<"R">> >> ],
      [ prohibited_commands |-> << <<"r","m">>, <<"R"," ">> >>,
        override |-> FALSE ],
      [ prohibited_commands |-> << <<"R","M">> >>,
        restricted_files |-> << <<"m","-">> >> ],
      [ prohibited_commands |-> << <<"m"," ">> >>,
        override |-> FALSE,
        restricted_files |-> << <<"R">>, <<"r","r">> >> ],
      [ prohibited_commands |-> << <<>> >>,
        override |-> FALSE,
        restricted_files |-> << >> ],
      << >> }

\* SERVER_CONFIG.get("command_blocking", {}).get("prohibited_commands", [])
ProhibitedCommands(cfg) ==
    IF "prohibited_commands" \in DOMAIN cfg THEN cfg.prohibited_commands ELSE <<>>
\* SERVER_CONFIG.get("restricted_files", [])
RestrictedFiles(cfg) ==
    IF "restricted_files" \in DOMAIN cfg THEN cfg.restricted_files ELSE <<>>

(***************************************************************************)
(* Policy gate.                                                            *)
(***************************************************************************)
\* re.search(r'\b(' + '|'.join(re.escape(t) for t in tokens) + r')\b[\s-]', s)
PatternSearch(tokens, s) ==
    \E t \in DOMAIN tokens : \E i \in 1..Len(s) :
        /\ OccursAt(s, tokens[t], i)
        /\ WordBoundary(s, i - 1)
        /\ WordBoundary(s, i + Len(tokens[t]) - 1)
        /\ i + Len(tokens[t]) <= Len(s)
        /\ (IsSpaceChar(s[i + Len(tokens[t])]) \/ s[i + Len(tokens[t])] = "-")

\* re.search(rf'\b{re.escape(block)}\b', s)
StrictSearch(block, s) ==
    \E i \in 1..(Len(s) + 1) :
        /\ OccursAt(s, block, i)
        /\ WordBoundary(s, i - 1)
        /\ WordBoundary(s, i + Len(block) - 1)

\* re.search(r'\b(' + '|'.join(...) + r')[\s-]', s): the pattern of
\* is_command_blocked_old, without the closing \b
PatternSearchOld(tokens, s) ==
    \E t \in DOMAIN tokens : \E i \in 1..Len(s) :
        /\ OccursAt(s, tokens[t], i)
        /\ WordBoundary(s, i - 1)
        /\ i + Len(tokens[t]) <= Len(s)
        /\ (IsSpaceChar(s[i + Len(tokens[t])]) \/ s[i + Len(tokens[t])] = "-")

\* is_command_blocked_old: the earlier gate, whose second check is the plain
\* substring test `block in command_lower`
is_command_blocked_old(cfg, command) ==
    LET prohibited_cmds == ProhibitedCommands(cfg)
        cleaned_prohibited == [i \in DOMAIN prohibited_cmds |-> Strip(prohibited_cmds[i])]
        command_parts == ReSplit(command)
        command_lower == LowerStr(command)
    IN  /\ prohibited_cmds # <<>>
        /\ \/ \E p \in DOMAIN command_parts :
                  PatternSearchOld(cleaned_prohibited, LowerStr(Strip(command_parts[p])))
           \/ \E b \in DOMAIN prohibited_cmds :
                  Find(command_lower, prohibited_cmds[b]) > -1

\* is_command_blocked
is_command_blocked(cfg, command) ==
    LET prohibited_cmds == ProhibitedCommands(cfg)
        cleaned_prohibited == [i \in DOMAIN prohibited_cmds |-> Strip(prohibited_cmds[i])]
        command_parts == ReSplit(command)
        command_lower == LowerStr(command)
    IN  /\ prohibited_cmds # <<>>
        /\ \/ \E p \in DOMAIN command_parts :
                  PatternSearch(cleaned_prohibited, LowerStr(Strip(command_parts[p])))
           \/ \E b \in DOMAIN prohibited_cmds :
                  StrictSearch(prohibited_cmds[b], command_lower)

\* is_restricted_file_access with the test `command.find(f) > 0`
is_restricted_file_access_NotAtStart(cfg, command) ==
    \E f \in DOMAIN RestrictedFiles(cfg) : Find(command, RestrictedFiles(cfg)[f]) > 0

\* is_restricted_file_access
is_restricted_file_access(cfg, command) ==
    \E f \in DOMAIN RestrictedFiles(cfg) : Find(command, RestrictedFiles(cfg)[f]) > -1

\* check_override
check_override(cfg) ==
    IF "override" \in DOMAIN cfg THEN cfg.override ELSE FALSE

(***************************************************************************)
(* Values.  An Optional[...] is a sequence: <<>> is None, <<v>> is v.      *)
(* A text that is not matched character by character (an output, a         *)
(* message) is the sequence of the pieces it is concatenated from.         *)
(***************************************************************************)
None == <<>>
Some(v) == <<v>>
\* the truth value Python gives an Optional[str]: None and "" are false
Truthy(opt) == opt # None /\ opt[1] # <<>>

\* str(n) of an int
DigitSeq == <<"0","1","2","3","4","5","6","7","8","9">>
RECURSIVE NatToStr(_)
NatToStr(n) ==
    IF n < 10 THEN <<DigitSeq[n + 1]>>
    ELSE Append(NatToStr(n \div 10), DigitSeq[(n % 10) + 1])
IntToStr(n) == IF n < 0 THEN <<"-">> \o NatToStr(-n) ELSE NatToStr(n)

\* command.split(" ")[0]
FirstField(s) ==
    IF \E i \in DOMAIN s : s[i] = " "
    THEN SubSeq(s, 1, (CHOOSE i \in DOMAIN s :
                           s[i] = " " /\ \A j \in 1..(i - 1) : s[j] # " ") - 1)
    ELSE s

\* ExecResult(stdout, stderr, code)
ExecResult(stdout, stderr, code) == [stdout |-> stdout, stderr |-> stderr, code |-> code]

(***************************************************************************)
(* The host: what spawning a shell and talking to the child can do.        *)
(***************************************************************************)
\* the classes of the exceptions the host raises, with their base classes
BaseClasses(exc) ==
    CASE exc = "FileNotFoundError"  -> {"FileNotFoundError", "OSError", "Exception"}
      [] exc = "NotADirectoryError" -> {"NotADirectoryError", "OSError", "Exception"}
      [] exc = "OSError"            -> {"OSError", "Exception"}
      [] exc = "UnicodeDecodeError" -> {"UnicodeDecodeError", "ValueError", "Exception"}
      [] exc = "CancelledError"     -> {"CancelledError", "BaseException"}
      [] OTHER                      -> {exc, "Exception"}

\* what a child that was spawned and ran to its end leaves behind
ChildRuns ==
    { [code |-> 0, stdout |-> <<>>, stderr |-> <<>>],
      [code |-> 0, stdout |-> <<"out">>, stderr |-> <<>>],
      [code |-> 1, stdout |-> <<>>, stderr |-> <<"err">>],
      [code |-> 2, stdout |-> <<"out">>, stderr |-> <<"err">>] }

\* the shell was spawned and found no binary of the command's name: it
\* reports so itself (sh: "not found", bash: "command not found") and exits 127
ShellNotFoundRuns(command) ==
    { [code |-> 127, stdout |-> <<>>,
       stderr |-> <<"/bin/sh: 1: ">> \o command \o <<": not found\n">>],
      [code |-> 127, stdout |-> <<>>,
       stderr |-> <<"bash: line 1: ">> \o command \o <<": command not found\n">>] }

\* the command line starts with the name of a binary for the shell to look up
NamesBinary(command) == command # <<>> /\ IsWordChar(command[1])

\* the outcomes of create_subprocess_shell(command, cwd=...), communicate()
\* and decode('utf-8'): the child runs, or one of the three raises
HostOutcomes(command, options) ==
    {[kind |-> "ran", binary |-> "found", run |-> r] : r \in ChildRuns}
    \cup (IF NamesBinary(command)
          THEN {[kind |-> "ran", binary |-> "missing", run |-> r] :
                    r \in ShellNotFoundRuns(command)}
          ELSE {})
    \cup {[kind |-> "raises", at |-> "spawn", cause |-> "shell", exc |-> "FileNotFoundError",
           msg |-> <<"[Errno 2] No such file or directory: '/bin/sh'">>]}
    \cup (IF "cwd" \in DOMAIN options
          THEN {[kind |-> "raises", at |-> "spawn", cause |-> "cwd", exc |-> "FileNotFoundError",
                 msg |-> <<"[Errno 2] No such file or directory: ">> \o options.cwd],
                [kind |-> "raises", at |-> "spawn", cause |-> "cwd", exc |-> "NotADirectoryError",
                 msg |-> <<"[Errno 20] Not a directory: ">> \o options.cwd]}
          ELSE {})
    \cup {[kind |-> "raises", at |-> "communicate", cause |-> "io", exc |-> "OSError",
           msg |-> <<"[Errno 5] Input/output error">>],
          [kind |-> "raises", at |-> "decode", cause |-> "bytes", exc |-> "UnicodeDecodeError",
           msg |-> <<"'utf-8' codec can't decode byte">>]}

(***************************************************************************)
(* Process runner.                                                         *)
(***************************************************************************)
\* base64.b64encode(stdin.encode('utf-8')).decode('utf-8'), kept symbolic
Base64(text) == <<"base64(">> \o text \o <<")">>

\* fish_workaround: the command line it hands to the shell
FishCommand(interpreter, stdin) ==
    interpreter \o <<" -c \"echo ">> \o Base64(stdin) \o <<" | base64 -d | fish\"">>

\* the process exec_command asks the host for: the fish workaround's
\* command line with no stdin pipe, or the command with a pipe iff stdin
SpawnRequest(command, stdin, options) ==
    IF FirstField(command) = <<"f","i","s","h">> /\ Truthy(stdin)
    THEN [via |-> "shell", cmdline |-> FishCommand(command, stdin[1]),
          stdin_pipe |-> FALSE, input |-> None, options |-> options]
    ELSE [via |-> "shell", cmdline |-> command,
          stdin_pipe |-> Truthy(stdin),
          input |-> IF Truthy(stdin) THEN stdin ELSE None, options |-> options]

\* the result of the try block of exec_command when nothing raises
ExecReturn(host) == ExecResult(host.run.stdout, host.run.stderr, Some(host.run.code))

\* the handlers of exec_command with `except Exception` narrowed to OSError
ExecHandlers_OnlyOSError(command, host) ==
    IF "FileNotFoundError" \in BaseClasses(host.exc)
    THEN [raised |-> None,
          result |-> Some(ExecResult(<<>>, <<"Command not found: ">> \o command \o <<"\n">>, Some(127)))]
    ELSE IF "OSError" \in BaseClasses(host.exc)
    THEN [raised |-> None, result |-> Some(ExecResult(<<>>, host.msg, Some(1)))]
    ELSE [raised |-> Some(host.exc), result |-> None]

\* the handlers of exec_command: except FileNotFoundError, except Exception
ExecHandlers(command, host) ==
    IF "FileNotFoundError" \in BaseClasses(host.exc)
    THEN [raised |-> None,
          result |-> Some(ExecResult(<<>>, <<"Command not found: ">> \o command \o <<"\n">>, Some(127)))]
    ELSE IF "Exception" \in BaseClasses(host.exc)
    THEN [raised |-> None, result |-> Some(ExecResult(<<>>, host.msg, Some(1)))]
    ELSE [raised |-> Some(host.exc), result |-> None]

\* exec_command under the host outcome `host`: what it returns or raises
exec_command(command, stdin, options, host) ==
    IF host.kind = "ran"
    THEN [raised |-> None, result |-> Some(ExecReturn(host))]
    ELSE ExecHandlers(command, host)

\* format_result_messages with the STDERR block appended before the STDOUT
\* block
format_result_messages_StderrFirst(result) ==
    (IF result.code # None
     THEN << [type |-> "text", text |-> IntToStr(result.code[1]), name |-> "EXIT_CODE"] >>
     ELSE << >>)
    \o (IF result.stderr # <<>>
        THEN << [type |-> "text", text |-> result.stderr, name |-> "STDERR"] >>
        ELSE << >>)
    \o (IF result.stdout # <<>>
        THEN << [type |-> "text", text |-> result.stdout, name |-> "STDOUT"] >>
        ELSE << >>)

\* format_result_messages
format_result_messages(result) ==
    (IF result.code # None
     THEN << [type |-> "text", text |-> IntToStr(result.code[1]), name |-> "EXIT_CODE"] >>
     ELSE << >>)
    \o (IF result.stdout # <<>>
        THEN << [type |-> "text", text |-> result.stdout, name |-> "STDOUT"] >>
        ELSE << >>)
    \o (IF result.stderr # <<>>
        THEN << [type |-> "text", text |-> result.stderr, name |-> "STDERR"] >>
        ELSE << >>)

(***************************************************************************)
(* Requests.                                                               *)
(***************************************************************************)
\* the characters of the command lines of the model: two letters, an upper
\* case letter, whitespace, a dash and a separator
Alphabet == {"r", "m", "R", " ", "-", ";"}
\* every command line of at most MaxLen characters
Commands == UNION {[1..n -> Alphabet] : n \in 0..MaxLen}
\* the workdir and stdin arguments of run_command
Workdirs == {None, Some(<<"/w">>)}
Stdins == {None, Some(<<>>), Some(<<"data">>)}
\* the programs of the run_expect_script requests of the model
Programs == { <<"r","m"," ","-">>, <<"r","m","m">>, <<"R">> }
\* the action dicts of a run_expect_script request; "bogus" is any value of
\* the "action" key other than "expect" and "send"
ActionDicts ==
    { [action |-> "expect", text |-> <<"prompt">>],
      [action |-> "send", text |-> <<"3">>],
      [action |-> "bogus", text |-> <<"3">>] }
ActionLists == UNION {[1..n -> ActionDicts] : n \in 0..MaxActions}

(***************************************************************************)
(* run_command.                                                            *)
(***************************************************************************)
blocked_feedback == <<"This server is not authorized to run these commands">>
restricted_feedback == <<"This server is not authorized to access restricted files">>

\* the denial dict with is_error left False
Denial_NotError(feedback) ==
    [ content |-> << [type |-> "text", text |-> <<"1">>, name |-> "EXIT_CODE"],
                     [type |-> "text", text |-> feedback \o <<"\n">>, name |-> "STDERR"] >>,
      is_error |-> FALSE ]

\* the dict run_command returns for a denial
Denial(feedback) ==
    [ content |-> << [type |-> "text", text |-> <<"1">>, name |-> "EXIT_CODE"],
                     [type |-> "text", text |-> feedback \o <<"\n">>, name |-> "STDERR"] >>,
      is_error |-> TRUE ]

\* the if/elif chain of run_command with the restricted-file branch left out
PolicyDecision_NoRestricted(cfg, command) ==
    IF check_override(cfg) THEN "allow"
    ELSE IF is_command_blocked(cfg, command) THEN "blocked"
    ELSE "allow"

\* the if/elif chain of run_command with the override test left out
PolicyDecision_NoOverride(cfg, command) ==
    IF is_command_blocked(cfg, command) THEN "blocked"
    ELSE IF is_restricted_file_access(cfg, command) THEN "restricted"
    ELSE "allow"

\* the if/elif chain of run_command: override, then the token blocklist,
\* then the restricted files
PolicyDecision(cfg, command) ==
    IF check_override(cfg) THEN "allow"
    ELSE IF is_command_blocked(cfg, command) THEN "blocked"
    ELSE IF is_restricted_file_access(cfg, command) THEN "restricted"
    ELSE "allow"

\* options = {"cwd": workdir} if workdir else {}
Options(workdir) == IF Truthy(workdir) THEN [cwd |-> workdir[1]] ELSE <<>>

\* the dict run_command returns for an execution result
ExecResponse(result) ==
    [ content |-> format_result_messages(result),
      is_error |-> result.code # Some(0) ]

(***************************************************************************)
(* Actions.                                                                *)
(***************************************************************************)
\* the tool calls followed side by side
CallIds == {1, 2}
\* the directory the server was started in
StartDir == <<"/", "a">>
\* a call slot before its request has arrived
IdleCall == [pc |-> "idle", request |-> None, cwd0 |-> None, cwd1 |-> None, dir |-> None,
             response |-> None, raised |-> None]
\* no tool call is followed side by side with another
NoCalls ==
    /\ cwd = StartDir
    /\ chdirs = <<>>
    /\ calls = [i \in CallIds |-> IdleCall]

\* no exec_command call is followed at the level of its pipes
NoPipes ==
    /\ proc = "none"
    /\ plan = None
    /\ ip = 0
    /\ pipes = [stdin |-> <<>>, stdout |-> <<>>, stderr |-> <<>>]
    /\ feed = <<>>
    /\ tasks = [stdin |-> "done", stdout |-> "done", stderr |-> "done"]
    /\ captured = [stdout |-> <<>>, stderr |-> <<>>]

Init ==
    /\ SERVER_CONFIG = <<>>
    /\ configFile = "unread"
    /\ pc = "boot"
    /\ request = <<>>
    /\ execCalls = <<>>
    /\ spawned = <<>>
    /\ execResult = None
    /\ response = None
    /\ raised = None
    /\ child = "none"
    /\ cursor = 0
    /\ output = None
    /\ steps = <<>>
    /\ pty = <<>>
    /\ NoPipes
    /\ NoCalls

\* load_config, called by __main__ before the server runs: the file is
\* loaded, or it is missing (FileNotFoundError) or cannot be parsed (any
\* other exception) and the defaults are installed
LoadConfig ==
    /\ pc = "boot"
    /\ \E file \in {"loaded", "missing", "unparsable"} :
          /\ configFile' = file
          /\ IF file = "loaded"
             THEN \E f \in ConfigFiles : SERVER_CONFIG' = f
             ELSE SERVER_CONFIG' = DEFAULT_CONFIG
    /\ pc' = "idle"
    /\ UNCHANGED <<request, execCalls, spawned, execResult, response, raised,
                   child, cursor, output>>
    /\ UNCHANGED <<steps, pty, pipeVars, callVars>>

\* a run_command call arrives
ReceiveRunCommand ==
    /\ pc = "idle"
    /\ \E c \in Commands, w \in Workdirs, i \in Stdins :
          request' = [tool |-> "run_command", command |-> c, workdir |-> w, stdin |-> i]
    /\ pc' = "run_command"
    /\ UNCHANGED <<SERVER_CONFIG, configFile, execCalls, spawned, execResult, response, raised,
                   child, cursor, output>>
    /\ UNCHANGED <<steps, pty, pipeVars, callVars>>

\* run_command: the gate, then exec_command and the rendering of its result
RunCommand ==
    /\ pc = "run_command"
    /\ LET decision == PolicyDecision(SERVER_CONFIG, request.command)
           options == Options(request.workdir)
       IN  IF decision = "blocked"
           THEN /\ response' = Some(Denial(blocked_feedback))
                /\ UNCHANGED <<execCalls, spawned, execResult, raised>>
           ELSE IF decision = "restricted"
           THEN /\ response' = Some(Denial(restricted_feedback))
                /\ UNCHANGED <<execCalls, spawned, execResult, raised>>
           ELSE \E host \in HostOutcomes(request.command, options) :
                  LET r == exec_command(request.command, request.stdin, options, host)
                  IN  /\ execCalls' = Append(execCalls,
                              [command |-> request.command, stdin |-> request.stdin,
                               options |-> options, host |-> host])
                      /\ spawned' =
                            IF host.kind = "raises" /\ host.at = "spawn" THEN spawned
                            ELSE Append(spawned,
                                        SpawnRequest(request.command, request.stdin, options))
                      /\ execResult' = r.result
                      /\ raised' = r.raised
                      /\ response' = IF r.raised = None
                                     THEN Some(ExecResponse(r.result[1]))
                                     ELSE None
    /\ pc' = "done"
    /\ UNCHANGED <<SERVER_CONFIG, configFile, request, child, cursor, output>>
    /\ UNCHANGED <<steps, pty, pipeVars, callVars>>

\* a run_expect_script call arrives
ReceiveExpect ==
    /\ pc = "idle"
    /\ \E p \in Programs, a \in ActionLists :
          request' = [tool |-> "run_expect_script", program |-> p, actions |-> a]
    /\ pc' = "expect_validate"
    /\ UNCHANGED <<SERVER_CONFIG, configFile, execCalls, spawned, execResult, response, raised,
                   child, cursor, output>>
    /\ UNCHANGED <<steps, pty, pipeVars, callVars>>

\* run_expect_script without the test of the action kinds: the automator is
\* built from whatever the request holds
ExpectValidate_Lazy ==
    /\ pc = "expect_validate"
    /\ pc' = "auto_spawn"
    /\ cursor' = 1
    /\ UNCHANGED <<SERVER_CONFIG, configFile, request, execCalls, spawned, execResult, response,
                   raised, child, output>>
    /\ UNCHANGED <<steps, pty, pipeVars, callVars>>

\* run_expect_script up to the construction of the automator: the loop that
\* translates the action dicts raises ValueError at the first invalid one
ExpectValidate ==
    /\ pc = "expect_validate"
    /\ IF \E i \in DOMAIN request.actions : request.actions[i].action \notin {"expect", "send"}
       THEN /\ raised' = Some("ValueError")
            /\ pc' = "done"
            /\ cursor' = cursor
       ELSE /\ raised' = raised
            /\ pc' = "auto_spawn"
            /\ cursor' = 1
    /\ UNCHANGED <<SERVER_CONFIG, configFile, request, execCalls, spawned, execResult, response,
                   child, output>>
    /\ UNCHANGED <<steps, pty, pipeVars, callVars>>

\* one call to pexpect: spawn, expect, sendline, read or close; `index` is
\* the position of the action in self.actions (0 for the other calls), `ev`
\* is how the call ended
Step(call, index, arg, ev) == [call |-> call, index |-> index, arg |-> arg, ev |-> ev]

\* the method of the child an action kind calls
ChildCall(action) ==
    CASE action = "expect" -> "expect"
      [] action = "send"   -> "sendline"
      [] OTHER             -> "none"

\* PexpectAutomator.run: pexpect.spawn(self.program); it starts the program
\* on a pty or raises ExceptionPexpect
AutoSpawn ==
    /\ pc = "auto_spawn"
    /\ \E started \in BOOLEAN :
          /\ steps' = Append(steps, Step("spawn", 0, request.program,
                                      IF started THEN "started" ELSE "ExceptionPexpect"))
          /\ IF started
             THEN /\ child' = "alive"
                  /\ spawned' = Append(spawned, [via |-> "pty", cmdline |-> request.program])
                  /\ pc' = "auto_actions"
             ELSE /\ child' = child
                  /\ spawned' = spawned
                  /\ pc' = "auto_finally"
    /\ UNCHANGED <<SERVER_CONFIG, configFile, request, execCalls, execResult, response, raised,
                   cursor, output>>
    /\ UNCHANGED <<pty, pipeVars, callVars>>

\* what the child can be after a step of the script: one that has exited
\* stays so
ChildAfter(before) == IF before = "alive" THEN {"alive", "exited"} ELSE {before}

\* what the host can answer to one action: expect(text) matches or raises
\* TIMEOUT or EOF; sendline(text) writes, or raises OSError on the pty of a
\* child that has exited
\* sendline is one os.write on the pty without a timeout: while the child
\* lives and the pty holds PtyCap unread texts the write has no outcome yet.
ActionEvents(action, before, pending) ==
    CASE action = "expect" -> {"match", "TIMEOUT", "EOF"}
      [] action = "send"   -> IF before = "alive"
                              THEN (IF Len(pending) < PtyCap THEN {"sent"} ELSE {})
                              ELSE {"sent", "OSError"}
      [] OTHER             -> {"none"}

\* the loop with an unmatched expect passed over: the script goes on with
\* the next action
ActionOutcome_SkipUnmatched(action, ev) ==
    CASE action = "expect" -> "next"
      [] action = "send"   -> IF ev = "sent" THEN "next" ELSE "fail"
      [] OTHER             -> "fail"

\* what one action of the loop does under the host event `ev`: "next" moves
\* on, "fail" leaves the try block through an exception
ActionOutcome(action, ev) ==
    CASE action = "expect" -> IF ev = "match" THEN "next" ELSE "fail"
      [] action = "send"   -> IF ev = "sent" THEN "next" ELSE "fail"
      [] OTHER             -> "fail"

\* PexpectAutomator.run: one turn of the loop over self.actions
AutoAction ==
    /\ pc = "auto_actions"
    /\ cursor <= Len(request.actions)
    /\ \E ev \in ActionEvents(request.actions[cursor].action, child, pty),
          after \in ChildAfter(child) :
          /\ child' = after
          /\ pty' = IF ev = "sent" /\ child = "alive"
                    THEN Append(pty, request.actions[cursor].text) ELSE pty
          /\ steps' = IF ChildCall(request.actions[cursor].action) = "none" THEN steps
                       ELSE Append(steps, Step(ChildCall(request.actions[cursor].action),
                                               cursor, request.actions[cursor].text, ev))
          /\ IF ActionOutcome(request.actions[cursor].action, ev) = "next"
             THEN cursor' = cursor + 1 /\ pc' = pc
             ELSE cursor' = cursor /\ pc' = "auto_finally"
    /\ UNCHANGED <<SERVER_CONFIG, configFile, request, execCalls, spawned, execResult, response,
                   raised, output>>
    /\ UNCHANGED <<pipeVars, callVars>>

\* what is left of the child's output after the last match: nothing, or
\* some text
\* The spawned program is free to read what was sent to it, or not to.
PtyChildReads ==
    /\ child = "alive"
    /\ pty # <<>>
    /\ pty' = Tail(pty)
    /\ UNCHANGED <<SERVER_CONFIG, configFile, pc, request, execCalls, spawned, execResult,
                   response, raised, child, cursor, output, steps, pipeVars, callVars>>

\* The spawned program may exit at any moment, also between two calls of run.
PtyChildExits ==
    /\ pc = "auto_actions"
    /\ child = "alive"
    /\ child' = "exited"
    /\ UNCHANGED <<SERVER_CONFIG, configFile, pc, request, execCalls, spawned, execResult,
                   response, raised, cursor, output, steps, pty, pipeVars, callVars>>

DrainOutputs == { <<>>, <<"rest">> }

\* PexpectAutomator.run: self.output = self.child.read(), which is
\* expect(EOF) under the default timeout of the child: it returns what came
\* before the end of the child's output, or raises TIMEOUT
AutoDrain ==
    /\ pc = "auto_actions"
    /\ cursor > Len(request.actions)
    /\ \E ev \in {"EOF", "TIMEOUT"}, data \in DrainOutputs, after \in ChildAfter(child) :
          /\ child' = after
          /\ steps' = Append(steps, Step("read", 0, <<>>, ev))
          /\ output' = IF ev = "EOF" THEN Some(data) ELSE output
    /\ pc' = "auto_finally"
    /\ UNCHANGED <<SERVER_CONFIG, configFile, request, execCalls, spawned, execResult, response,
                   raised, cursor>>
    /\ UNCHANGED <<pty, pipeVars, callVars>>

\* the finally block without the close of a child that is alive
AutoFinally_NoClose ==
    /\ pc = "auto_finally"
    /\ pc' = "expect_return"
    /\ UNCHANGED <<SERVER_CONFIG, configFile, request, execCalls, spawned, execResult, response,
                   raised, child, cursor, output, steps>>
    /\ UNCHANGED <<pty, pipeVars, callVars>>

\* PexpectAutomator.run: the finally block
AutoFinally ==
    /\ pc = "auto_finally"
    /\ child' = IF child = "alive" THEN "closed" ELSE child
    /\ steps' = IF child = "alive" THEN Append(steps, Step("close", 0, <<>>, "closed"))
                 ELSE steps
    /\ pc' = "expect_return"
    /\ UNCHANGED <<SERVER_CONFIG, configFile, request, execCalls, spawned, execResult, response,
                   raised, cursor, output>>
    /\ UNCHANGED <<pty, pipeVars, callVars>>

\* run_expect_script returning an empty text when autom.run() gave None
ExpectReturn_NoRaise ==
    /\ pc = "expect_return"
    /\ response' = IF output = None THEN Some(<<>>) ELSE output
    /\ pc' = "done"
    /\ UNCHANGED <<SERVER_CONFIG, configFile, request, execCalls, spawned, execResult, raised,
                   child, cursor, output>>
    /\ UNCHANGED <<steps, pty, pipeVars, callVars>>

\* run_expect_script after autom.run()
ExpectReturn ==
    /\ pc = "expect_return"
    /\ IF output = None
       THEN raised' = Some("RuntimeError") /\ response' = response
       ELSE raised' = raised /\ response' = output
    /\ pc' = "done"
    /\ UNCHANGED <<SERVER_CONFIG, configFile, request, execCalls, spawned, execResult,
                   child, cursor, output>>
    /\ UNCHANGED <<steps, pty, pipeVars, callVars>>

Next ==
    \/ LoadConfig
    \/ ReceiveRunCommand
    \/ RunCommand
    \/ ReceiveExpect
    \/ ExpectValidate
    \/ AutoSpawn
    \/ AutoAction
    \/ PtyChildReads
    \/ PtyChildExits
    \/ AutoDrain
    \/ AutoFinally
    \/ ExpectReturn

Spec == Init /\ [][Next]_vars

(***************************************************************************)
(* exec_command at the level of its pipes: create_subprocess_shell with    *)
(* pipes for stdout and stderr (and for stdin if there is input), then     *)
(* communicate(), which gathers one task that writes the input and closes  *)
(* the pipe, and one task per output stream that reads it to its end, and  *)
(* then waits for the child. A unit of data stands for one pipe buffer;    *)
(* the k-th operation of a child writes the unit k.                        *)
(***************************************************************************)
\* what a child does, one operation after the other: it writes one unit to
\* stdout or to stderr, or reads one unit from its input; then it exits
ChildOps == {"stdout", "stderr", "stdin"}
ChildPlans == UNION {[1..n -> ChildOps] : n \in 0..MaxOps}
ExitCodes == {0, 3}
\* the output streams communicate() reads
OutStreams == {"stdout", "stderr"}
\* the stdin arguments and the commands of the calls followed at this level
PipePayloads == {None} \cup { Some(p) : p \in UNION {[1..n -> {"d"}] : n \in 0..MaxInput} }
PipeCommands == { <<"R">> }

\* the tasks of communicate() with the streams handled one after the other:
\* stdout is read when the input is written, stderr when stdout is at its end
Runnable_Sequential(task, ts) ==
    /\ ts[task] = "run"
    /\ task = "stdout" => ts["stdin"] = "done"
    /\ task = "stderr" => ts["stdout"] = "done"

\* communicate() gathers its three tasks: each one that has not finished
\* runs, whatever the others do
Runnable(task, ts) == ts[task] = "run"

\* an exec_command call, before it spawns
InitPipes ==
    /\ SERVER_CONFIG = DEFAULT_CONFIG
    /\ configFile = "missing"
    /\ pc = "exec_command"
    /\ request \in { [tool |-> "exec_command", command |-> c, stdin |-> i, options |-> <<>>] :
                        c \in PipeCommands, i \in PipePayloads }
    /\ execCalls = <<>>
    /\ spawned = <<>>
    /\ execResult = None
    /\ response = None
    /\ raised = None
    /\ child = "none"
    /\ cursor = 0
    /\ output = None
    /\ steps = <<>>
    /\ pty = <<>>
    /\ NoPipes
    /\ NoCalls

\* create_subprocess_shell: the child starts, with a pipe on its input if
\* there is input; communicate() starts its tasks
ExecSpawn ==
    /\ pc = "exec_command"
    /\ \E ops \in ChildPlans, code \in ExitCodes :
          plan' = Some([ops |-> ops, code |-> code])
    /\ LET sp == SpawnRequest(request.command, request.stdin, request.options)
       IN  /\ spawned' = Append(spawned, sp)
           /\ feed' = IF sp.input # None THEN sp.input[1] ELSE <<>>
           /\ tasks' = [stdin |-> IF sp.input # None THEN "run" ELSE "done",
                        stdout |-> "run", stderr |-> "run"]
    /\ proc' = "running"
    /\ ip' = 1
    /\ pc' = "communicate"
    /\ UNCHANGED <<SERVER_CONFIG, configFile, request, execCalls, execResult, response, raised,
                   child, cursor, output, steps, pty, callVars, pipes, captured>>

\* the child does its next operation: a write blocks while the pipe is
\* full, a read blocks while the pipe is empty and open; a read of an
\* inherited input is the host's affair and returns
ChildStep ==
    /\ proc = "running"
    /\ ip <= Len(plan[1].ops)
    /\ LET op == plan[1].ops[ip]
       IN  IF op = "stdin"
           THEN IF ~spawned[1].stdin_pipe THEN pipes' = pipes
                ELSE IF pipes.stdin # <<>> THEN pipes' = [pipes EXCEPT !.stdin = Tail(@)]
                ELSE tasks.stdin = "done" /\ pipes' = pipes
           ELSE /\ Len(pipes[op]) < PipeCap
                /\ pipes' = [pipes EXCEPT ![op] = Append(@, ip)]
    /\ ip' = ip + 1
    /\ UNCHANGED <<SERVER_CONFIG, configFile, pc, request, execCalls, spawned, execResult, response,
                   raised, child, cursor, output, steps, pty, callVars, proc, plan, feed, tasks, captured>>

\* the child exits: its ends of the pipes close, input it has not read is
\* lost
ChildExit ==
    /\ proc = "running"
    /\ ip > Len(plan[1].ops)
    /\ proc' = "exited"
    /\ pipes' = [pipes EXCEPT !.stdin = <<>>]
    /\ UNCHANGED <<SERVER_CONFIG, configFile, pc, request, execCalls, spawned, execResult, response,
                   raised, child, cursor, output, steps, pty, callVars, plan, ip, feed, tasks, captured>>

\* communicate(input=...): the task that writes the input as the pipe takes
\* it and then closes the pipe; a pipe broken by the child's exit is ignored
FeedStdin ==
    /\ pc = "communicate"
    /\ Runnable("stdin", tasks)
    /\ IF proc = "exited" \/ feed = <<>>
       THEN /\ tasks' = [tasks EXCEPT !.stdin = "done"]
            /\ UNCHANGED <<pipes, feed>>
       ELSE /\ Len(pipes.stdin) < PipeCap
            /\ pipes' = [pipes EXCEPT !.stdin = Append(@, Head(feed))]
            /\ feed' = Tail(feed)
            /\ tasks' = tasks
    /\ UNCHANGED <<SERVER_CONFIG, configFile, pc, request, execCalls, spawned, execResult, response,
                   raised, child, cursor, output, steps, pty, callVars, proc, plan, ip, captured>>

\* communicate(): the task that reads one output stream; it takes what the
\* pipe holds and finishes at the end of the stream, when the pipe is empty
\* and the child has exited
ReadStream(s) ==
    /\ pc = "communicate"
    /\ Runnable(s, tasks)
    /\ IF pipes[s] # <<>>
       THEN /\ captured' = [captured EXCEPT ![s] = Append(@, Head(pipes[s]))]
            /\ pipes' = [pipes EXCEPT ![s] = Tail(@)]
            /\ tasks' = tasks
       ELSE /\ proc = "exited"
            /\ tasks' = [tasks EXCEPT ![s] = "done"]
            /\ UNCHANGED <<pipes, captured>>
    /\ UNCHANGED <<SERVER_CONFIG, configFile, pc, request, execCalls, spawned, execResult, response,
                   raised, child, cursor, output, steps, pty, callVars, proc, plan, ip, feed>>

\* communicate() returns when its three tasks have finished and the child
\* has been waited for; exec_command returns the ExecResult
CommunicateReturn ==
    /\ pc = "communicate"
    /\ \A t \in DOMAIN tasks : tasks[t] = "done"
    /\ proc = "exited"
    /\ LET host == [kind |-> "ran", binary |-> "found",
                    run |-> [code |-> plan[1].code, stdout |-> captured.stdout,
                             stderr |-> captured.stderr]]
       IN  /\ execCalls' = Append(execCalls,
                  [command |-> request.command, stdin |-> request.stdin,
                   options |-> request.options, host |-> host])
           /\ execResult' =
                  exec_command(request.command, request.stdin, request.options, host).result
    /\ pc' = "done"
    /\ UNCHANGED <<SERVER_CONFIG, configFile, request, spawned, response, raised, child, cursor,
                   output, steps, pty, pipeVars, callVars>>

NextPipes ==
    \/ ExecSpawn
    \/ ChildStep
    \/ ChildExit
    \/ FeedStdin
    \/ \E s \in OutStreams : ReadStream(s)
    \/ CommunicateReturn

\* the event loop runs every task that can run, and the child runs whenever
\* it is not blocked on a pipe
SpecPipes ==
    /\ InitPipes
    /\ [][NextPipes]_vars
    /\ WF_vars(ExecSpawn)
    /\ WF_vars(ChildStep)
    /\ WF_vars(ChildExit)
    /\ WF_vars(FeedStdin)
    /\ \A s \in OutStreams : WF_vars(ReadStream(s))
    /\ WF_vars(CommunicateReturn)

(***************************************************************************)
(* exec_command on command lines that name fish, and on some that do not.  *)
(***************************************************************************)
\* the command lines of the calls that try the fish workaround: fish alone,
\* fish with an argument after a blank or after a tab, fish after a blank,
\* a longer name that starts with fish, and another command
ShimCommands ==
    { <<"f","i","s","h">>,
      <<"f","i","s","h"," ","-","l">>,
      <<"f","i","s","h","\t","-","l">>,
      <<" ","f","i","s","h">>,
      <<"f","i","s","h","y">>,
      <<"R">> }

\* an exec_command call on one of these command lines, before it spawns
InitShim ==
    /\ SERVER_CONFIG = DEFAULT_CONFIG
    /\ configFile = "missing"
    /\ pc = "exec_command"
    /\ request \in { [tool |-> "exec_command", command |-> c, stdin |-> i, options |-> <<>>] :
                        c \in ShimCommands, i \in PipePayloads }
    /\ execCalls = <<>>
    /\ spawned = <<>>
    /\ execResult = None
    /\ response = None
    /\ raised = None
    /\ child = "none"
    /\ cursor = 0
    /\ output = None
    /\ steps = <<>>
    /\ pty = <<>>
    /\ NoPipes
    /\ NoCalls

SpecShim == InitShim /\ [][NextPipes]_vars

(***************************************************************************)
(* exec_command under cancellation: the task that awaits it is cancelled   *)
(* while communicate() is pending.                                         *)
(***************************************************************************)
\* what the host raises into `await proc.communicate(...)` when the calling
\* task is cancelled
Cancellation ==
    [kind |-> "raises", at |-> "communicate", cause |-> "cancel",
     exc |-> "CancelledError", msg |-> <<>>]

\* the calling task is cancelled: CancelledError passes the handlers of
\* exec_command or is turned into a result by them; exec_command has no
\* finally block and makes no call on proc
Cancel ==
    /\ pc = "communicate"
    /\ LET r == exec_command(request.command, request.stdin, request.options, Cancellation)
       IN  /\ execCalls' = Append(execCalls,
                  [command |-> request.command, stdin |-> request.stdin,
                   options |-> request.options, host |-> Cancellation])
           /\ raised' = r.raised
           /\ execResult' = r.result
    /\ pc' = "cancelled"
    /\ UNCHANGED <<SERVER_CONFIG, configFile, request, spawned, response, child, cursor,
                   output, steps, pty, pipeVars, callVars>>

NextCancel ==
    \/ NextPipes
    \/ Cancel

SpecCancel == InitPipes /\ [][NextCancel]_vars

(***************************************************************************)
(* One run_expect_script call followed to its end.  run_expect_script is a  *)
(* plain def and PexpectAutomator.run a plain loop: once called, each of    *)
(* their steps is taken as soon as the call it makes returns, hence weak    *)
(* fairness on the server's steps.  Nothing makes the spawned program read  *)
(* its input or exit, so its two actions carry no fairness.                 *)
(***************************************************************************)
InitAuto ==
    /\ SERVER_CONFIG = DEFAULT_CONFIG
    /\ configFile = "missing"
    /\ pc = "expect_validate"
    /\ request \in { [tool |-> "run_expect_script", program |-> p, actions |-> a] :
                        p \in Programs, a \in ActionLists }
    /\ execCalls = <<>>
    /\ spawned = <<>>
    /\ execResult = None
    /\ response = None
    /\ raised = None
    /\ child = "none"
    /\ cursor = 0
    /\ output = None
    /\ steps = <<>>
    /\ pty = <<>>
    /\ NoPipes
    /\ NoCalls

NextAuto ==
    \/ ExpectValidate
    \/ AutoSpawn
    \/ AutoAction
    \/ PtyChildReads
    \/ PtyChildExits
    \/ AutoDrain
    \/ AutoFinally
    \/ ExpectReturn

SpecAuto ==
    /\ InitAuto
    /\ [][NextAuto]_vars
    /\ WF_vars(ExpectValidate)
    /\ WF_vars(AutoSpawn)
    /\ WF_vars(AutoAction)
    /\ WF_vars(AutoDrain)
    /\ WF_vars(AutoFinally)
    /\ WF_vars(ExpectReturn)

(***************************************************************************)
(* Vocabulary of the properties.                                           *)
(***************************************************************************)
\* the configured override flag is set
OverrideOn == "override" \in DOMAIN SERVER_CONFIG /\ SERVER_CONFIG.override = TRUE

\* a run_command call has returned or raised
RunCommandDone == pc = "done" /\ request.tool = "run_command"

\* the command line holds one of the configured restricted path substrings
ContainsRestricted(cfg, command) ==
    \E f \in DOMAIN RestrictedFiles(cfg) : \E i \in 1..(Len(command) + 1) :
        OccursAt(command, RestrictedFiles(cfg)[f], i)

\* the token occurs in the segment at i as a whole word (a word boundary on
\* both sides) and is followed by whitespace or a dash
WholeWordAt(segment, token, i) ==
    /\ token # <<>>
    /\ OccursAt(segment, token, i)
    /\ WordBoundary(segment, i - 1)
    /\ WordBoundary(segment, i + Len(token) - 1)
    /\ i + Len(token) <= Len(segment)
    /\ (IsSpaceChar(segment[i + Len(token)]) \/ segment[i + Len(token)] = "-")

\* some segment of the command line (split on ; & |) holds a configured
\* token, as configured apart from its surrounding blanks, as a whole word
\* followed by whitespace or a dash; the segment is read in lower case
HasProhibitedWord(cfg, command) ==
    \E p \in DOMAIN ReSplit(command) : \E t \in DOMAIN ProhibitedCommands(cfg) :
        \E i \in 1..Len(ReSplit(command)[p]) :
            WholeWordAt(LowerStr(ReSplit(command)[p]), Strip(ProhibitedCommands(cfg)[t]), i)

\* the occurrence of the token at i of the command line is part of a longer
\* identifier: the token is made of word characters and a word character
\* stands right before or right after it
EmbeddedAt(command, token, i) ==
    /\ token # <<>>
    /\ \A k \in DOMAIN token : IsWordChar(token[k])
    /\ \/ i > 1 /\ IsWordChar(command[i - 1])
       \/ i + Len(token) <= Len(command) /\ IsWordChar(command[i + Len(token)])

\* the configured tokens without their surrounding blanks
CleanedTokens(cfg) ==
    [t \in DOMAIN ProhibitedCommands(cfg) |-> Strip(ProhibitedCommands(cfg)[t])]

\* where the configured tokens occur in the command line, letter case aside
TokenOccurrences(cfg, command) ==
    LET lower == LowerStr(command)
        tokens == [t \in DOMAIN CleanedTokens(cfg) |-> LowerStr(CleanedTokens(cfg)[t])]
    IN  { o \in (DOMAIN tokens) \X (1..(Len(command) + 1)) :
            OccursAt(lower, tokens[o[1]], o[2]) }

\* every occurrence of a token is only part of a longer identifier
OnlyEmbeddedTokens(cfg, command) ==
    LET lower == LowerStr(command)
        tokens == CleanedTokens(cfg)
    IN  \A t \in DOMAIN tokens : \A i \in 1..(Len(command) + 1) :
            OccursAt(lower, LowerStr(tokens[t]), i) => EmbeddedAt(command, tokens[t], i)

\* the configuration with its tokens in lower case
LowerTokens(cfg) ==
    [prohibited_commands |->
        [t \in DOMAIN ProhibitedCommands(cfg) |-> LowerStr(ProhibitedCommands(cfg)[t])]]

\* the response is one of the two policy denials
IsDenial(resp) ==
    resp \in {Some(Denial(blocked_feedback)), Some(Denial(restricted_feedback))}

(***************************************************************************)
(* Tool calls side by side.  Each call keeps its arguments and locals in   *)
(* its own frame (calls[i]); what a call reads outside its frame is        *)
(* SERVER_CONFIG at the policy gate and the process's working directory    *)
(* at the moment its child is started.  The host is taken as a function:   *)
(* a child started with the same command line, input and directory ends    *)
(* the same way, and it reports all three, so that any difference in what  *)
(* a call handed to the host shows in the call's result.                   *)
(***************************************************************************)
\* how many change_dir calls are followed
MaxChdirs == 1

HomeDir == <<"/", "h">>
ExistingDirs == { StartDir, StartDir \o <<"/", "s">>, <<"/", "b">>, HomeDir }

IsAbsolute(path) == path # <<>> /\ path[1] = "/"

\* the directory a path names for a process whose working directory is base
Resolve(base, path) == IF IsAbsolute(path) THEN path ELSE base \o <<"/">> \o path

HOME_VAR == <<"$", "H", "O", "M", "E">>

\* c_dir.replace("$HOME", home_dir)
RECURSIVE ReplaceHome(_)
ReplaceHome(s) ==
    IF s = <<>> THEN <<>>
    ELSE IF OccursAt(s, HOME_VAR, 1)
    THEN HomeDir \o ReplaceHome(SubSeq(s, Len(HOME_VAR) + 1, Len(s)))
    ELSE <<s[1]>> \o ReplaceHome(Tail(s))

\* os.path.expanduser(c_dir) for the user the server runs as: a leading "~"
\* that ends the path or is followed by "/" becomes the home directory
expanduser(path) ==
    IF path # <<>> /\ path[1] = "~" /\ (Len(path) = 1 \/ path[2] = "/")
    THEN HomeDir \o Tail(path)
    ELSE path

\* change_dir: the directory it hands to os.chdir
ExpandedDir(c_dir) ==
    IF \E k \in 1..Len(c_dir) : OccursAt(c_dir, HOME_VAR, k)
    THEN ReplaceHome(c_dir)
    ELSE expanduser(c_dir)

ChdirArgs == { <<"/", "b">>, <<"s">>, HOME_VAR, <<"~">>, <<"/", "x">> }

\* the directory the child of a call is started in: the cwd option where
\* run_command passes one, else the one the server process is in
ChildDir_Ambient(options, ambient) == ambient

ChildDir(options, ambient) ==
    IF "cwd" \in DOMAIN options THEN Resolve(ambient, options.cwd) ELSE ambient

\* the requests of the calls side by side
CallCommands == { <<"R">>, <<"r", "m", " ", "-">> }
CallWorkdirs == { None, Some(<<>>), Some(<<"/", "b">>), Some(<<"s">>), Some(<<"/", "x">>) }
CallActionLists == { <<>>, <<[action |-> "bogus", text |-> <<"3">>]>> }
CallRequests ==
    { [tool |-> "run_command", command |-> c, workdir |-> w, stdin |-> None] :
          c \in CallCommands, w \in CallWorkdirs }
    \cup { [tool |-> "run_expect_script", program |-> p, actions |-> a] :
              p \in CallCommands, a \in CallActionLists }

\* the server configurations the calls are checked under
CallConfigs == { DEFAULT_CONFIG, [ prohibited_commands |-> << <<"r","m"," ">> >>,
                                   override |-> TRUE,
                                   restricted_files |-> << <<"R">> >> ] }

\* the options run_command passes to exec_command; run_expect_script passes
\* none to pexpect.spawn
CallOptions(req) == IF req.tool = "run_command" THEN Options(req.workdir) ELSE <<>>

\* what the host makes of a child started by `cmdline` in directory `dir`
HostRun(cmdline, options, dir) ==
    IF dir \in ExistingDirs
    THEN [kind |-> "ran", binary |-> "found",
          run |-> [code |-> 0, stdout |-> cmdline \o <<"@">> \o dir, stderr |-> <<>>]]
    ELSE [kind |-> "raises", at |-> "spawn", cause |-> "cwd", exc |-> "FileNotFoundError",
          msg |-> <<"[Errno 2] No such file or directory: ">> \o options.cwd]

\* run_command / run_expect_script up to the start of the child, under the
\* configuration cfg: the denial or error it ends with, or <<>> to go on
GateOutcome(cfg, req) ==
    IF req.tool = "run_command"
    THEN LET decision == PolicyDecision(cfg, req.command)
         IN  IF decision = "blocked"
             THEN Some([response |-> Some(Denial(blocked_feedback)), raised |-> None])
             ELSE IF decision = "restricted"
             THEN Some([response |-> Some(Denial(restricted_feedback)), raised |-> None])
             ELSE None
    ELSE IF \E k \in DOMAIN req.actions : req.actions[k].action \notin {"expect", "send"}
         THEN Some([response |-> None, raised |-> Some("ValueError")])
         ELSE None

\* what a call returns or raises once its child, started in dir, has ended
ChildOutcome(req, dir) ==
    IF req.tool = "run_command"
    THEN LET options == CallOptions(req)
             host == HostRun(SpawnRequest(req.command, req.stdin, options).cmdline, options, dir)
             r == exec_command(req.command, req.stdin, options, host)
         IN  [response |-> IF r.raised = None THEN Some(ExecResponse(r.result[1])) ELSE None,
              raised |-> r.raised]
    ELSE [response |-> Some(req.program \o <<"@">> \o dir), raised |-> None]

\* the result of a call that runs with no other call beside it, in a server
\* whose working directory is ambient
Alone(cfg, req, ambient) ==
    IF GateOutcome(cfg, req) # None THEN GateOutcome(cfg, req)[1]
    ELSE ChildOutcome(req, ChildDir(CallOptions(req), ambient))

InitCalls ==
    /\ SERVER_CONFIG \in CallConfigs
    /\ configFile = "loaded"
    /\ pc = "idle"
    /\ request = None
    /\ execCalls = <<>>
    /\ spawned = <<>>
    /\ execResult = None
    /\ response = None
    /\ raised = None
    /\ child = "none"
    /\ cursor = 0
    /\ output = None
    /\ steps = <<>>
    /\ pty = <<>>
    /\ NoPipes
    /\ NoCalls

\* a request arrives while the server is in whatever directory it is in
CallReceive(i) ==
    /\ calls[i].pc = "idle"
    /\ \E req \in CallRequests :
          calls' = [calls EXCEPT ![i] = [@ EXCEPT !.pc = "gate", !.request = Some(req),
                                                  !.cwd0 = Some(cwd)]]
    /\ UNCHANGED <<SERVER_CONFIG, configFile, pc, request, execCalls, spawned, execResult,
                   response, raised, child, cursor, output, steps, pty, pipeVars, cwd, chdirs>>

\* run_command up to exec_command, run_expect_script up to autom.run()
CallGate(i) ==
    /\ calls[i].pc = "gate"
    /\ LET g == GateOutcome(SERVER_CONFIG, calls[i].request[1])
       IN  calls' = [calls EXCEPT ![i] =
                        IF g = None THEN [@ EXCEPT !.pc = "spawn"]
                        ELSE [@ EXCEPT !.pc = "done", !.response = g[1].response,
                                       !.raised = g[1].raised]]
    /\ UNCHANGED <<SERVER_CONFIG, configFile, pc, request, execCalls, spawned, execResult,
                   response, raised, child, cursor, output, steps, pty, pipeVars, cwd, chdirs>>

\* create_subprocess_shell / pexpect.spawn: the child gets its directory
CallSpawn(i) ==
    /\ calls[i].pc = "spawn"
    /\ calls' = [calls EXCEPT ![i] =
                    [@ EXCEPT !.pc = "running", !.cwd1 = Some(cwd),
                              !.dir = Some(ChildDir(CallOptions(calls[i].request[1]), cwd))]]
    /\ UNCHANGED <<SERVER_CONFIG, configFile, pc, request, execCalls, spawned, execResult,
                   response, raised, child, cursor, output, steps, pty, pipeVars, cwd, chdirs>>

\* the child has ended and the call returns
CallReturn(i) ==
    /\ calls[i].pc = "running"
    /\ LET o == ChildOutcome(calls[i].request[1], calls[i].dir[1])
       IN  calls' = [calls EXCEPT ![i] = [@ EXCEPT !.pc = "done", !.response = o.response,
                                                      !.raised = o.raised]]
    /\ UNCHANGED <<SERVER_CONFIG, configFile, pc, request, execCalls, spawned, execResult,
                   response, raised, child, cursor, output, steps, pty, pipeVars, cwd, chdirs>>

\* change_dir: os.chdir(expanded_dir), or "error: invalid directory"
change_dir ==
    /\ Len(chdirs) < MaxChdirs
    /\ \E c_dir \in ChdirArgs :
          LET expanded_dir == ExpandedDir(c_dir)
              target == Resolve(cwd, expanded_dir)
          IN  IF target \in ExistingDirs
              THEN /\ cwd' = target
                   /\ chdirs' = Append(chdirs, expanded_dir)
              ELSE /\ cwd' = cwd
                   /\ chdirs' = Append(chdirs, <<"error: invalid directory">>)
    /\ UNCHANGED <<SERVER_CONFIG, configFile, pc, request, execCalls, spawned, execResult,
                   response, raised, child, cursor, output, steps, pty, pipeVars, calls>>

NextCalls ==
    \/ \E i \in CallIds : CallReceive(i)
    \/ \E i \in CallIds : CallGate(i)
    \/ \E i \in CallIds : CallSpawn(i)
    \/ \E i \in CallIds : CallReturn(i)
    \/ change_dir

SpecCalls == InitCalls /\ [][NextCalls]_vars

(***************************************************************************)
(* Properties.                                                             *)
(***************************************************************************)
\* C1: with override = true run_command never returns a policy denial:
\* whatever the command holds, it is handed to exec_command once and the
\* response is the rendering of what exec_command returned.
C1_OverrideExecutes ==
    (RunCommandDone /\ OverrideOn) =>
        /\ ~IsDenial(response)
        /\ Len(execCalls) = 1
        /\ execCalls[1].command = request.command
        /\ execResult # None
        /\ response = Some(ExecResponse(execResult[1]))

\* C1 witness: under override a command with a prohibited token was executed
C1_Witness ==
    /\ RunCommandDone /\ OverrideOn
    /\ HasProhibitedWord(SERVER_CONFIG, request.command)
    /\ Len(execCalls) = 1
    /\ execCalls[1].host.kind = "ran"

\* C2: with override = false, a command line with a segment that holds a
\* prohibited token as a whole word followed by whitespace or a dash gets
\* the blocked-command denial, wherever the token sits.
C2_ProhibitedWordDenied ==
    (RunCommandDone /\ ~OverrideOn /\ HasProhibitedWord(SERVER_CONFIG, request.command)) =>
        response = Some(Denial(blocked_feedback))

\* C3: a command in which every occurrence of a prohibited token is only
\* part of a longer identifier, and which holds no restricted path
\* substring, is not denied: run_command executes it.
C3_EmbeddedTokenAllowed ==
    (/\ RunCommandDone
     /\ OnlyEmbeddedTokens(SERVER_CONFIG, request.command)
     /\ ~ContainsRestricted(SERVER_CONFIG, request.command)) =>
        /\ ~IsDenial(response)
        /\ Len(execCalls) = 1
        /\ execCalls[1].command = request.command

\* C3 witness: a command that holds a token inside a longer identifier, with
\* override off, was executed
C3_Witness ==
    /\ RunCommandDone /\ ~OverrideOn
    /\ TokenOccurrences(SERVER_CONFIG, request.command) # {}
    /\ OnlyEmbeddedTokens(SERVER_CONFIG, request.command)
    /\ ~ContainsRestricted(SERVER_CONFIG, request.command)
    /\ Len(execCalls) = 1

\* C4: with override = false, a command the gate denies (a prohibited word
\* or a restricted path substring) never reaches exec_command and no
\* process is started for it.
C4_DeniedNeverExecutes ==
    (/\ pc \in {"run_command", "done"}
     /\ request.tool = "run_command"
     /\ ~OverrideOn
     /\ \/ is_command_blocked(SERVER_CONFIG, request.command)
        \/ ContainsRestricted(SERVER_CONFIG, request.command)) =>
        /\ execCalls = <<>>
        /\ spawned = <<>>
        /\ execResult = None

\* C4 witness: a denial was returned and nothing was executed
C4_Witness ==
    /\ RunCommandDone /\ ~OverrideOn
    /\ response = Some(Denial(blocked_feedback))
    /\ execCalls = <<>>

\* C5: with override = false, run_expect_script never starts a program whose
\* command line the gate denies.
C5_ExpectGated ==
    \A k \in DOMAIN spawned :
        (spawned[k].via = "pty" /\ ~OverrideOn) =>
            /\ ~is_command_blocked(SERVER_CONFIG, spawned[k].cmdline)
            /\ ~is_restricted_file_access(SERVER_CONFIG, spawned[k].cmdline)

\* C6 as stated: with override = false, a command that holds a restricted
\* path substring gets exit code 1, the restricted-access message and
\* is_error, and is not executed.
C6_RestrictedMessage ==
    (RunCommandDone /\ ~OverrideOn /\ ContainsRestricted(SERVER_CONFIG, request.command)) =>
        /\ response = Some(Denial(restricted_feedback))
        /\ execCalls = <<>>

\* C6 amended: with override = false, a command that holds a restricted path
\* substring is not executed and gets exit code 1 and is_error; its STDERR is
\* the restricted-access message unless the token blocklist blocks the
\* command too, and then it is the blocked-command message.
C6_RestrictedDenied ==
    (RunCommandDone /\ ~OverrideOn /\ ContainsRestricted(SERVER_CONFIG, request.command)) =>
        /\ execCalls = <<>>
        /\ response # None
        /\ response[1].is_error
        /\ Len(response[1].content) = 2
        /\ response[1].content[1].name = "EXIT_CODE"
        /\ response[1].content[1].text = IntToStr(1)
        /\ response[1].content[2].name = "STDERR"
        /\ response[1].content[2].text =
              (IF is_command_blocked(SERVER_CONFIG, request.command)
               THEN blocked_feedback ELSE restricted_feedback) \o <<"\n">>

\* C6 witness: a restricted path substring at the start of the command line
\* led to the restricted-access denial
C6_Witness ==
    /\ RunCommandDone /\ ~OverrideOn
    /\ \E f \in DOMAIN RestrictedFiles(SERVER_CONFIG) :
          /\ RestrictedFiles(SERVER_CONFIG)[f] # <<>>
          /\ OccursAt(request.command, RestrictedFiles(SERVER_CONFIG)[f], 1)
    /\ response = Some(Denial(restricted_feedback))

\* C7: the token-blocklist decision does not depend on letter case: the
\* command gets the blocked-command denial exactly when the lower-case
\* command is blocked under the lower-case tokens.
C7_CaseInsensitive ==
    (RunCommandDone /\ ~OverrideOn) =>
        ((response = Some(Denial(blocked_feedback)))
            <=> is_command_blocked(LowerTokens(SERVER_CONFIG), LowerStr(request.command)))

\* C8: exec_command is total: whatever the host does (the shell cannot be
\* spawned, the working directory is invalid, communicating fails, the
\* output cannot be decoded), it returns an ExecResult whose exit code is an
\* integer, and nothing is raised.
C8_ExecTotal ==
    (RunCommandDone /\ execCalls # <<>>) =>
        /\ raised = None
        /\ execResult # None
        /\ execResult[1].code # None
        /\ execResult[1].code[1] \in Int

\* C8 witness: the output could not be decoded and exec_command returned
C8_Witness ==
    /\ RunCommandDone
    /\ execCalls # <<>>
    /\ execCalls[1].host.kind = "raises"
    /\ execCalls[1].host.at = "decode"
    /\ execResult # None

\* the result is the one of the FileNotFoundError handler
IsCommandNotFound(result, command) ==
    /\ result.code = Some(127)
    /\ result.stderr # <<>>
    /\ result.stderr[1] = "Command not found: "

\* C9: a child that ran gives its real exit code; exit code 127 with
\* "Command not found: <command>" comes from the failure to spawn the shell
\* and from nothing else; every other failure gives exit code 1 with the
\* error text.
C9_ExitStatusMapping ==
    (RunCommandDone /\ execCalls # <<>> /\ execResult # None) =>
        LET host == execCalls[1].host
            result == execResult[1]
            shellMissing == host.kind = "raises" /\ host.at = "spawn" /\ host.cause = "shell"
        IN  /\ host.kind = "ran" => result.code = Some(host.run.code)
            /\ shellMissing => IsCommandNotFound(result, request.command)
            /\ IsCommandNotFound(result, request.command) => shellMissing
            /\ (host.kind = "raises" /\ ~shellMissing) =>
                   (result.code = Some(1) /\ result.stderr = host.msg)

\* the text holds "Command not found"
SaysCommandNotFound(text) ==
    \E k \in DOMAIN text : text[k] \in {"Command not found", "Command not found: "}

\* C10: a command that names a binary that does not exist, run through the
\* shell, gives exit code 127 and a stderr that holds "Command not found".
C10_MissingBinary ==
    (/\ RunCommandDone /\ execCalls # <<>> /\ execResult # None
     /\ execCalls[1].host.kind = "ran"
     /\ execCalls[1].host.binary = "missing") =>
        /\ execResult[1].code = Some(127)
        /\ SaysCommandNotFound(execResult[1].stderr)

\* the names of the content blocks, in order
BlockNames(content) == [k \in DOMAIN content |-> content[k].name]

\* the texts of the blocks of the given name, in order
BlockTexts(content, name) ==
    LET F[k \in 0..Len(content)] ==
            IF k = 0 THEN <<>>
            ELSE IF content[k].name = name THEN Append(F[k - 1], content[k].text)
            ELSE F[k - 1]
    IN  F[Len(content)]

\* C11: for every execution that completed, the response holds the blocks
\* EXIT_CODE, STDOUT, STDERR in this order: EXIT_CODE always, with the exit
\* code as a decimal string; STDOUT exactly when stdout is not empty, with
\* stdout as its text; STDERR exactly when stderr is not empty, with stderr
\* as its text; is_error is true exactly when the exit code is not 0.
C11_RenderedBlocks ==
    (RunCommandDone /\ execResult # None) =>
        LET result == execResult[1]
        IN  /\ response # None
            /\ BlockNames(response[1].content) =
                  <<"EXIT_CODE">>
                  \o (IF result.stdout = <<>> THEN <<>> ELSE <<"STDOUT">>)
                  \o (IF result.stderr = <<>> THEN <<>> ELSE <<"STDERR">>)
            /\ BlockTexts(response[1].content, "EXIT_CODE") = <<IntToStr(result.code[1])>>
            /\ result.stdout # <<>> =>
                  BlockTexts(response[1].content, "STDOUT") = <<result.stdout>>
            /\ result.stderr # <<>> =>
                  BlockTexts(response[1].content, "STDERR") = <<result.stderr>>
            /\ response[1].is_error <=> (result.code[1] # 0)

\* C11 witness: a child that wrote to both streams and exited with a code
\* other than 0 was rendered as three blocks
C11_Witness ==
    /\ RunCommandDone /\ execResult # None
    /\ execCalls[1].host.kind = "ran"
    /\ execResult[1].stdout # <<>>
    /\ execResult[1].stderr # <<>>
    /\ execResult[1].code # Some(0)
    /\ response # None
    /\ Len(response[1].content) = 3

\* C12: a policy denial is the rendering of an execution result with empty
\* stdout, exit code 1 and the reason text as stderr: the blocks EXIT_CODE
\* "1" and STDERR, no STDOUT block, is_error true.
C12_DenialIsFailedResult ==
    (RunCommandDone /\ execCalls = <<>>) =>
        LET reason == IF PolicyDecision(SERVER_CONFIG, request.command) = "blocked"
                      THEN blocked_feedback ELSE restricted_feedback
        IN  /\ response = Some(ExecResponse(ExecResult(<<>>, reason \o <<"\n">>, Some(1))))
            /\ BlockNames(response[1].content) = <<"EXIT_CODE", "STDERR">>
            /\ response[1].is_error

\* C12 witness: the restricted-file denial was returned
C12_Witness ==
    /\ RunCommandDone /\ execCalls = <<>>
    /\ response # None
    /\ BlockTexts(response[1].content, "STDERR") = <<restricted_feedback \o <<"\n">>>>

\* the process started by `sp` gets the payload on its input and then the
\* end of input: through a pipe that communicate() writes and closes, or,
\* for fish, through the pipeline echo <base64> | base64 -d | fish
ReceivesPayloadThenEOF(sp, command, payload) ==
    \/ sp.stdin_pipe /\ sp.input = Some(payload)
    \/ /\ FirstField(command) = <<"f","i","s","h">>
       /\ sp.cmdline = FishCommand(command, payload)

\* C13: whenever a stdin payload is supplied with a command that is
\* executed, the child gets the whole payload on its input and then the end
\* of input, whatever the payload, the empty one included; it is never left
\* on an input stream that stays open.
C13_StdinDeliveredAndClosed ==
    (RunCommandDone /\ request.stdin # None) =>
        \A k \in DOMAIN spawned :
            ReceivesPayloadThenEOF(spawned[k], request.command, request.stdin[1])

\* everything the operations `ops` write to the stream, in order
WrittenTo(ops, stream) ==
    LET F[k \in 0..Len(ops)] ==
            IF k = 0 THEN <<>>
            ELSE IF ops[k] = stream THEN Append(F[k - 1], k)
            ELSE F[k - 1]
    IN  F[Len(ops)]

\* exec_command has returned what the child wrote to both streams, whole
\* and in order
CapturedInFull ==
    /\ pc = "done"
    /\ execResult # None
    /\ execResult[1].stdout = WrittenTo(plan[1].ops, "stdout")
    /\ execResult[1].stderr = WrittenTo(plan[1].ops, "stderr")
    /\ execResult[1].code = Some(plan[1].code)

Succeeded(s) ==
    CASE s.call = "spawn"    -> s.ev = "started"
      [] s.call = "expect"   -> s.ev = "match"
      [] s.call = "sendline" -> s.ev = "sent"
      [] s.call = "read"     -> s.ev = "EOF"
      [] OTHER               -> TRUE

\* the positions in `steps` of the expect and sendline calls
ActionPositions == { k \in DOMAIN steps : steps[k].call \in {"expect", "sendline"} }

\* C15: the automator executes the actions of the script in list order: the
\* j-th expect or sendline call made on the child is the j-th action of the
\* list, with its text, and it is made only after the program was started
\* and every action before it has succeeded; so no action is skipped,
\* reordered or executed twice, and a send that follows an expect is written
\* only after the expect has matched.
C15_ActionsInOrder ==
    steps # <<>> =>
        \A k \in ActionPositions :
            LET j == Cardinality({ i \in ActionPositions : i <= k })
            IN  /\ j <= Len(request.actions)
                /\ steps[k].index = j
                /\ steps[k].call = ChildCall(request.actions[j].action)
                /\ steps[k].arg = request.actions[j].text
                /\ k = j + 1
                /\ \A i \in 1..(k - 1) : Succeeded(steps[i])

\* C15 witness: an expect matched and the send that follows it was written
C15_Witness ==
    /\ Len(steps) >= 3
    /\ steps[2].call = "expect" /\ steps[2].ev = "match"
    /\ steps[3].call = "sendline" /\ steps[3].ev = "sent"

\* a run_expect_script call is being served, or has ended
ExpectCall ==
    /\ pc \in {"expect_validate", "auto_spawn", "auto_actions", "auto_finally",
               "expect_return", "done"}
    /\ request.tool = "run_expect_script"

\* PexpectAutomator.run has ended
RunEnded == ExpectCall /\ pc \in {"expect_return", "done"}

\* C16: once a call of the script has failed (an expect that met TIMEOUT or
\* EOF, a sendline or the spawn that raised, the final read that timed out)
\* the script has failed as a whole: nothing but the close of the child
\* follows the failed call (no later action, no retry), run gives None, and
\* run_expect_script ends with RuntimeError and returns no text.
C16_FailureIsTerminal ==
    (ExpectCall /\ \E k \in DOMAIN steps : ~Succeeded(steps[k])) =>
        /\ \A k \in DOMAIN steps :
              ~Succeeded(steps[k]) => \A i \in (k + 1)..Len(steps) : steps[i].call = "close"
        /\ output = None
        /\ response = None
        /\ pc = "done" => raised = Some("RuntimeError")

\* C16 witness: the first expect of a script of two actions timed out and
\* the call ended with RuntimeError
C16_Witness ==
    /\ ExpectCall /\ pc = "done"
    /\ Len(request.actions) = 2
    /\ Len(steps) >= 2
    /\ steps[2].call = "expect" /\ steps[2].ev = "TIMEOUT"
    /\ raised = Some("RuntimeError")

\* C17: on every way out of PexpectAutomator.run the child it started is no
\* longer alive: one that was alive has been closed, by a close that is the
\* last call made on it, and no child is closed before the script has ended.
C17_CleanupOnEveryPath ==
    /\ RunEnded => child # "alive"
    /\ (ExpectCall /\ child = "closed") => RunEnded
    /\ \A k \in DOMAIN steps :
          steps[k].call = "close" => (k = Len(steps) /\ RunEnded /\ child = "closed")

\* C17 witness: an expect timed out while the child was alive, and the
\* child was closed
C17_Witness ==
    /\ RunEnded
    /\ child = "closed"
    /\ \E k \in DOMAIN steps : steps[k].call = "expect" /\ steps[k].ev = "TIMEOUT"

\* the request holds an action whose kind is neither expect nor send
HasInvalidAction ==
    \E i \in DOMAIN request.actions : request.actions[i].action \notin {"expect", "send"}

\* C18: a run_expect_script request with an action of another kind than
\* expect and send, at any position, is rejected with ValueError before
\* anything is started: no program is spawned, no action of the list is
\* executed, nothing is returned.
C18_InvalidActionRejected ==
    (ExpectCall /\ HasInvalidAction) =>
        /\ spawned = <<>>
        /\ steps = <<>>
        /\ child = "none"
        /\ response = None
        /\ pc # "expect_validate" => (pc = "done" /\ raised = Some("ValueError"))

\* C18 witness: a request whose second action is invalid, after a valid
\* first one, was rejected
C18_Witness ==
    /\ ExpectCall /\ pc = "done"
    /\ Len(request.actions) = 2
    /\ request.actions[1].action = "expect"
    /\ request.actions[2].action \notin {"expect", "send"}
    /\ raised = Some("ValueError")

\* the program was started and every action of the script has succeeded
AllActionsSucceeded ==
    /\ steps # <<>>
    /\ steps[1].ev = "started"
    /\ Cardinality(ActionPositions) = Len(request.actions)
    /\ \A k \in ActionPositions : Succeeded(steps[k])

\* C19: a script whose actions have all succeeded is not reported as failed:
\* one read is made after the last action, and run_expect_script returns
\* what that read gave.
C19_CompletedScriptSucceeds ==
    (ExpectCall /\ pc = "done" /\ AllActionsSucceeded) =>
        /\ Cardinality({ k \in DOMAIN steps : steps[k].call = "read" }) = 1
        /\ raised = None
        /\ output # None
        /\ response = output

\* load_config found no configuration file, or one it could not parse
LoadFailed == configFile \in {"missing", "unparsable"}

\* C20: when the configuration file is missing or cannot be parsed, the
\* policy in force is the built-in default: its prohibited list is not
\* empty, override is off, and run_command denies, without executing it,
\* every command that holds a default prohibited token as a whole word
\* followed by whitespace or a dash, or a default restricted path.
C20_FallbackDenies ==
    LoadFailed =>
        /\ SERVER_CONFIG = DEFAULT_CONFIG
        /\ ProhibitedCommands(SERVER_CONFIG) # <<>>
        /\ ~OverrideOn
        /\ ~check_override(SERVER_CONFIG)
        /\ (/\ RunCommandDone
            /\ \/ HasProhibitedWord(DEFAULT_CONFIG, request.command)
               \/ ContainsRestricted(DEFAULT_CONFIG, request.command)) =>
                  (IsDenial(response) /\ execCalls = <<>>)

\* C21: when the task that awaits exec_command is cancelled while the child
\* runs, the child is terminated: once the cancelled call has ended, its
\* child is no longer running.
C21_CancelTerminatesChild ==
    (pc = "cancelled" /\ raised = Some("CancelledError")) => proc # "running"

\* the first token of a command line: its first maximal run of characters
\* that are not whitespace
FirstToken(command) ==
    LET s == LStrip(command)
    IN  IF \E i \in DOMAIN s : IsSpaceChar(s[i])
        THEN SubSeq(s, 1, (CHOOSE i \in DOMAIN s :
                               IsSpaceChar(s[i]) /\ \A j \in 1..(i - 1) : ~IsSpaceChar(s[j])) - 1)
        ELSE s

\* C22: the command line exec_command spawns is the wrapper
\* <command> -c "echo <base64 of stdin> | base64 -d | fish" exactly when the
\* first token of the command is fish and stdin is given and not empty;
\* in every other case it is the command, unchanged.
C22_ShimExactlyForFish ==
    spawned # <<>> =>
        spawned[1].cmdline =
            IF /\ FirstToken(request.command) = <<"f","i","s","h">>
               /\ request.stdin # None
               /\ request.stdin[1] # <<>>
            THEN request.command \o <<" -c \"echo ">> \o Base64(request.stdin[1])
                     \o <<" | base64 -d | fish\"">>
            ELSE request.command

\* the states of the session a call to pexpect passes through: Spawned for
\* the spawn, Waiting for an expect, Sending for a sendline, Draining for
\* the final read, each followed by Failed if the call raised; the close of
\* the child belongs to Closed
PhasesOf(s) ==
    (CASE s.call = "spawn"    -> IF Succeeded(s) THEN <<"Spawned">> ELSE <<>>
       [] s.call = "expect"   -> <<"Waiting">>
       [] s.call = "sendline" -> <<"Sending">>
       [] s.call = "read"     -> <<"Draining">>
       [] OTHER               -> <<>>)
    \o (IF Succeeded(s) THEN <<>> ELSE <<"Failed">>)

\* the states the session has passed through so far, Closed once run has
\* left its finally block
SessionTrace ==
    LET F[k \in 0..Len(steps)] == IF k = 0 THEN <<>> ELSE F[k - 1] \o PhasesOf(steps[k])
    IN  F[Len(steps)] \o (IF RunEnded THEN <<"Closed">> ELSE <<>>)

\* C23: a session that has ended went Spawned, then Waiting or Sending per
\* action, then Draining, then Closed, or into Failed and from there to
\* Closed: it passed through exactly one of Draining and Failed, Draining
\* only after every action was done, Failed followed by Closed alone, and
\* Closed last.
C23_SessionStateMachine ==
    (RunEnded /\ steps # <<>>) =>
        LET t == SessionTrace
            ends == { k \in DOMAIN t : t[k] \in {"Draining", "Failed"} }
            acts == { k \in DOMAIN t : t[k] \in {"Waiting", "Sending"} }
        IN  /\ t[1] \in {"Spawned", "Failed"}
            /\ \A k \in DOMAIN t : t[k] = "Spawned" => k = 1
            /\ \A k \in DOMAIN t : t[k] = "Closed" <=> k = Len(t)
            /\ \A k \in DOMAIN t : t[k] = "Failed" => k + 1 = Len(t)
            /\ \A k \in DOMAIN t :
                  t[k] = "Draining" =>
                      /\ Cardinality({ a \in acts : a < k }) = Len(request.actions)
                      /\ \A a \in acts : a < k
            /\ Cardinality(ends) = 1

\* C24: a run_expect_script call always terminates, whatever the script and
\* whatever the spawned program does: the session is eventually closed and
\* the caller eventually holds an output or a failure.
C24_RunScriptTerminates ==
    <>(pc = "done" /\ child # "alive" /\ (response # None \/ raised # None))

\* the call passes run_command an absolute workdir
AbsoluteWorkdir(req) ==
    /\ req.tool = "run_command"
    /\ Truthy(req.workdir)
    /\ IsAbsolute(req.workdir[1])

\* C25: calls in flight side by side do not affect one another: while no
\* change_dir call has been made, and in any case for a call that passes an
\* absolute workdir, a finished call has the result it has when run alone
\* in the server as it was when the call arrived.
C25_CallsIndependent ==
    \A i \in CallIds :
        (/\ calls[i].pc = "done"
         /\ chdirs = <<>> \/ AbsoluteWorkdir(calls[i].request[1]))
        => LET a == Alone(SERVER_CONFIG, calls[i].request[1], calls[i].cwd0[1])
           IN  calls[i].response = a.response /\ calls[i].raised = a.raised

\* C25 witness: two calls have run side by side to their ends, one of them
\* with an absolute workdir, its child started after a change_dir call had
\* moved the server away from where it was when the call arrived
C25_Witness ==
    /\ \A i \in CallIds : calls[i].pc = "done" /\ calls[i].dir # None
    /\ \E i \in CallIds :
          /\ AbsoluteWorkdir(calls[i].request[1])
          /\ calls[i].response # None
          /\ calls[i].response[1].is_error = FALSE
          /\ calls[i].cwd1[1] # calls[i].cwd0[1]

====
